---- MODULE Spec2Model ----
(***************************************************************************)
(* Model of assets/js/app.js: the locale loader (loadLanguage), the        *)
(* renderer (renderAll and its section renderers), the interaction         *)
(* controller (toggleLanguage, scroll / nav / anchor handlers) and the two *)
(* timers (loading overlay, progress bars).                                *)
(*                                                                         *)
(* Markup is modelled as sequences of tokens: a template literal becomes   *)
(* the concatenation of its fixed parts and its interpolated values, and   *)
(* map(...).join('') becomes the concatenation of the fragments.           *)
(* Non-ASCII literals of the source are written in pinyin.                 *)
(***************************************************************************)
EXTENDS Integers, Sequences, FiniteSets, TLC

VARIABLES
    appData,          \* app.js:5   the active data set, Null before the first load
    currentLang,      \* app.js:6   the active locale code
    docLang,          \* document.documentElement.lang
    dom,              \* the content of every target the renderers write
    barTimers,        \* pending 100 ms progress-bar timers (app.js:243)
    loadingHidden,    \* #loading has class "hidden"
    hideTimers,       \* pending 300 ms overlay timers (app.js:47)
    initState,        \* position of the DOMContentLoaded handler
    pending,          \* loadLanguage calls suspended at an await, oldest first
    listenersAttached,\* initializeEventListeners has run
    observing,        \* addScrollAnimations has hidden and observed the sections
    toggleDisabled,   \* langToggle.disabled
    toggleOpacity,    \* langToggle.style.opacity
    langText,         \* textContent of the toggle's .lang-text
    navActive,        \* <<navToggle has "active", navMenu has "active">>
    navScrolled,      \* #nav has class "scrolled"
    scrollY,          \* window.scrollY
    activeLinks,      \* the nav links that carry class "active"
    layout,           \* the sections of the page, in document order
    hasObserver,      \* the browser defines IntersectionObserver
    notices,          \* alert() calls since the last toggle click (or since startup)
    renderCalls,      \* renderAll() calls since the last toggle click
    toggleOutcome,    \* how the last toggleLanguage call ended
    clickSnap,        \* the page as it was when the last toggle click arrived
    prevSnap,         \* clickSnap of the toggle before the last one
    prevOutcome,      \* toggleOutcome of the toggle before the last one
    lastRender        \* dom as the last completed renderAll left it, and what it read

vars == <<appData, currentLang, docLang, dom, barTimers, loadingHidden, hideTimers,
          initState, pending, listenersAttached, observing, toggleDisabled,
          toggleOpacity, langText, navActive, navScrolled, scrollY, activeLinks,
          layout, hasObserver, notices, renderCalls, toggleOutcome, clickSnap,
          prevSnap, prevOutcome, lastRender>>

(***************************************************************************)
(* Bounds of the model.                                                    *)
(***************************************************************************)
\* Most loadLanguage calls the model lets be suspended at once.
MaxPending == 2
\* Most progress-bar timers the model lets be pending at once.
MaxBarTimers == 2

(***************************************************************************)
(* Program constants.                                                      *)
(***************************************************************************)
\* app.js:117  window.scrollY >= sectionTop - 100
Lookahead == 100
\* app.js:81   window.scrollY > 50
ScrolledOffset == 50

Langs == {"cn", "en"}

(***************************************************************************)
(* JavaScript values that the code tests for truthiness.                   *)
(***************************************************************************)
Undef == [k |-> "undef", s |-> "", l |-> <<>>]
Str(x) == [k |-> "str", s |-> x, l |-> <<>>]
List(x) == [k |-> "list", s |-> "", l |-> x]

\* A truthiness test that takes the empty array for falsy.
TruthyEmptyFalsy(v) ==
    CASE v.k = "undef" -> FALSE
      [] v.k = "str" -> v.s # ""
      [] v.k = "list" -> v.l # <<>>
\* JavaScript truthiness: undefined and '' are falsy; every array, the empty one
\* too, is truthy.
Truthy(v) ==
    CASE v.k = "undef" -> FALSE
      [] v.k = "str" -> v.s # ""
      [] v.k = "list" -> TRUE

RECURSIVE JoinMap(_, _)
\* seq.map(F).join('')
JoinMap(F(_), seq) ==
    IF seq = <<>> THEN <<>> ELSE F(Head(seq)) \o JoinMap(F, Tail(seq))

Contains(seq, tok) == \E i \in 1..Len(seq) : seq[i] = tok

(***************************************************************************)
(* The page: nav links (data-nav key and href) and the markup's defaults.  *)
(***************************************************************************)
NavKeys == {"home", "about", "projects"}
NavHref(key) ==
    CASE key = "home" -> "#hero"
      [] key = "about" -> "#about"
      [] key = "projects" -> "#projects"

Null == [file |-> "none", ver |-> "null"]

\* One of two literals, chosen on the locale code as the code's two-way branches do.
Pick(lang, cn, en) == IF lang = "cn" THEN cn ELSE en

(***************************************************************************)
(* The data files.  Each locale's file can be served in several versions:  *)
(* "full" has every field; "sparse" lacks one nav key, has another empty,  *)
(* and has a project without the optional fields; "broken" parses but has  *)
(* no profile, so that rendering throws.                                   *)
(***************************************************************************)
Versions == {"full", "sparse", "broken"}

NavOf(lang, ver) ==
    [k \in NavKeys |->
        IF ver = "sparse" /\ k = "about" THEN Undef
        ELSE IF ver = "sparse" /\ k = "projects" THEN Str("")
        ELSE Str(Pick(lang, "nav-cn-", "nav-en-") \o k)]

ProfileOf(lang) ==
    [avatar |-> "assets/avatar.png",
     name |-> Pick(lang, "name-cn", "name-en"),
     title |-> Pick(lang, "title-cn", "title-en"),
     intro |-> Pick(lang, "intro-cn", "intro-en"),
     bio |-> Pick(lang, "bio-cn", "bio-en"),
     tags |-> Pick(lang, <<"tag-cn-1", "tag-cn-2">>, <<"tag-en-1">>),
     contact |-> [email |-> "a@b.c", phone |-> "123",
                  github |-> <<"https://", "github.com/GGyongfeng">>,
                  website |-> <<"https://", "ggyongfeng.github.io">>],
     other |-> [political |-> Pick(lang, "pol-cn", "pol-en"),
                advantages |-> Pick(lang, "adv-cn", "adv-en"),
                awards |-> Pick(lang, "awd-cn", "awd-en"),
                language |-> Pick(lang, "lng-cn", "lng-en")]]

SkillsOf(lang) ==
    << [category |-> Pick(lang, "cat-cn-1", "cat-en-1"), level |-> Pick(lang, "lvl-cn", "lvl-en"),
        proficiency |-> 90, icon |-> "code-outline",
        description |-> Pick(lang, "sd-cn-1", "sd-en-1"), technologies |-> <<"Vue", "React">>],
       [category |-> Pick(lang, "cat-cn-2", "cat-en-2"), level |-> Pick(lang, "lvl-cn", "lvl-en"),
        proficiency |-> 75, icon |-> "server-outline",
        description |-> Pick(lang, "sd-cn-2", "sd-en-2"), technologies |-> <<"Node">>] >>

Project(lang, n, resp, ach) ==
    [name |-> Pick(lang, "proj-cn-", "proj-en-") \o n, link |-> "https://example.org/" \o n,
     company |-> Pick(lang, "co-cn", "co-en"), role |-> Pick(lang, "role-cn", "role-en"),
     period |-> "2023-2024", description |-> Pick(lang, "pd-cn", "pd-en"),
     responsibilities |-> resp, achievements |-> ach, technologies |-> <<"TLA">>]

ProjectsOf(lang, ver) ==
    IF ver = "sparse"
    THEN << Project(lang, "1", Undef, Undef) >>
    ELSE << Project(lang, "1", List(<<Pick(lang, "resp-cn", "resp-en")>>),
                    Str(Pick(lang, "ach-cn", "ach-en"))),
            Project(lang, "2", Undef, Undef) >>

EducationOf(lang) ==
    [education |-> << [degree |-> Pick(lang, "deg-cn", "deg-en"),
                       university |-> Pick(lang, "uni-cn", "uni-en"),
                       college |-> Pick(lang, "col-cn", "col-en"),
                       major |-> Pick(lang, "maj-cn", "maj-en"), period |-> "2019-2023"] >>,
     campus |-> << [organization |-> Pick(lang, "org-cn", "org-en"),
                    department |-> Str(Pick(lang, "dep-cn", "dep-en")),
                    position |-> Pick(lang, "pos-cn", "pos-en"), period |-> "2020",
                    description |-> Pick(lang, "cd-cn", "cd-en")],
                   [organization |-> Pick(lang, "org2-cn", "org2-en"),
                    department |-> Undef,
                    position |-> Pick(lang, "pos-cn", "pos-en"), period |-> "2021",
                    description |-> Pick(lang, "cd-cn", "cd-en")] >>]

\* The document _data/data-<lang>.json parses to, in version ver.
Doc(lang, ver) ==
    [file |-> lang, ver |-> ver,
     nav |-> NavOf(lang, ver),
     hasProfile |-> ver # "broken",
     profile |-> ProfileOf(lang),
     skills |-> SkillsOf(lang),
     projects |-> ProjectsOf(lang, ver),
     education |-> EducationOf(lang)]

Docs(lang) == {Doc(lang, v) : v \in Versions}

(***************************************************************************)
(* The targets the renderers write, with the markup's content before the   *)
(* first render.                                                           *)
(***************************************************************************)
InitialDom ==
    [navLabels |-> [k \in NavKeys |-> "markup-" \o k],
     avatarSrc |-> "", name |-> "", title |-> "", intro |-> "",
     btns |-> <<"markup-btn-1", "markup-btn-2">>,
     bio |-> "", tags |-> <<>>,
     skillsGrid |-> <<>>, barProgress |-> <<>>, barWidth |-> <<>>,
     projectsTimeline |-> <<>>,
     educationList |-> <<>>, campusList |-> <<>>, subsectionTitle |-> "markup-subsection",
     contactEmail |-> "", contactPhone |-> "",
     githubHref |-> <<>>, githubText |-> "", websiteHref |-> <<>>, websiteText |-> <<>>,
     contactTitles |-> <<"markup-h3", "markup-h3", "markup-h3", "markup-h3">>,
     otherInfo |-> <<>>,
     footerGithub |-> <<>>, footerWebsite |-> <<>>]

(***************************************************************************)
(* The renderers.  Each takes the targets d, the data set and the locale   *)
(* code it reads, and gives the targets as it leaves them.                 *)
(***************************************************************************)
\* renderNav: a link is written only when the data set has a truthy label for
\* its key; otherwise its text stays.
RenderNav(d, data) ==
    [d EXCEPT !.navLabels =
        [k \in NavKeys |-> IF Truthy(data.nav[k]) THEN data.nav[k].s ELSE @[k]]]

RenderHero(d, data, lang) ==
    [d EXCEPT !.avatarSrc = data.profile.avatar,
              !.name = data.profile.name,
              !.title = data.profile.title,
              !.intro = data.profile.intro,
              !.btns = IF lang = "cn" THEN <<"ChaKanXiangMu", "LianXiWo">>
                       ELSE <<"View Projects", "Contact Me">>]

Tag(tag) == <<"<span class=tag>", tag, "</span>">>
TechTag(tech) == <<"<span class=tech-tag>", tech, "</span>">>
Li(resp) == <<"<li>", resp, "</li>">>

RenderAbout(d, data) ==
    [d EXCEPT !.bio = data.profile.bio,
              !.tags = JoinMap(Tag, data.profile.tags)]

SkillCard(skill) ==
    <<"<div class=skill-card>", "<ion-icon name=", skill.icon, ">",
      "<div class=skill-name>", skill.category, "<div class=skill-level>", skill.level,
      "<div class=skill-progress-bar data-progress=", ToString(skill.proficiency),
      "style=width: 0%>",
      "<div class=skill-description>", skill.description,
      "<div class=skill-technologies>">>
    \o JoinMap(TechTag, skill.technologies) \o <<"</div>">>

\* A renderSkills that keeps the width of a bar already on the page.
RenderSkillsKeepWidth(d, data) ==
    [d EXCEPT !.skillsGrid = JoinMap(SkillCard, data.skills),
              !.barProgress = [i \in 1..Len(data.skills) |-> ToString(data.skills[i].proficiency)],
              !.barWidth = [i \in 1..Len(data.skills) |->
                               IF i \in DOMAIN d.barWidth THEN d.barWidth[i] ELSE "0"]]
\* innerHTML replaces the cards: every bar is new, with data-progress set and width 0%.
RenderSkills(d, data) ==
    [d EXCEPT !.skillsGrid = JoinMap(SkillCard, data.skills),
              !.barProgress = [i \in 1..Len(data.skills) |-> ToString(data.skills[i].proficiency)],
              !.barWidth = [i \in 1..Len(data.skills) |-> "0"]]

\* The 100 ms callback: every bar now on the page gets its data-progress as width.
AnimateBars(d) ==
    [d EXCEPT !.barWidth = d.barProgress]

ResponsibilitiesBlock(project, lang) ==
    IF Truthy(project.responsibilities)
    THEN <<"<div class=project-responsibilities>",
           IF lang = "cn" THEN "ZhiZe:" ELSE "Responsibilities:", "<ul>">>
         \o JoinMap(Li, project.responsibilities.l) \o <<"</ul>", "</div>">>
    ELSE <<>>

AchievementsBlock(project, lang) ==
    IF Truthy(project.achievements)
    THEN <<"<div class=project-achievements>",
           IF lang = "cn" THEN "ChengGuo:" ELSE "Achievements:",
           "<p>", project.achievements.s, "</p>", "</div>">>
    ELSE <<>>

ProjectCard(project, lang) ==
    <<"<div class=project-card>", "<a href=", project.link, ">", project.name, "</a>",
      "<span>", project.company, "</span>", "<span>", project.role, "</span>",
      "<div class=project-period>", project.period,
      "<div class=project-description>", project.description>>
    \o ResponsibilitiesBlock(project, lang)
    \o AchievementsBlock(project, lang)
    \o <<"<div class=project-technologies>">>
    \o JoinMap(TechTag, project.technologies) \o <<"</div>", "</div>">>

ProjectsHTML(projects, lang) ==
    LET Card(project) == ProjectCard(project, lang)
    IN  JoinMap(Card, projects)

RenderProjects(d, data, lang) ==
    [d EXCEPT !.projectsTimeline = ProjectsHTML(data.projects, lang)]

EducationItem(edu) ==
    <<"<div class=education-item>", edu.degree, " | ", edu.university,
      "<div class=education-university>", edu.college,
      "<div class=education-major>", edu.major,
      "<div class=education-period>", edu.period, "</div>">>

CampusItem(camp) ==
    <<"<div class=campus-item>", camp.organization>>
    \o (IF Truthy(camp.department) THEN <<" - ", camp.department.s>> ELSE <<>>)
    \o <<"<div class=campus-position>", camp.position,
         "<div class=campus-period>", camp.period,
         "<div class=campus-description>", camp.description, "</div>">>

RenderEducation(d, data, lang) ==
    [d EXCEPT !.educationList = JoinMap(EducationItem, data.education.education),
              !.campusList = JoinMap(CampusItem, data.education.campus),
              !.subsectionTitle = IF lang = "cn" THEN "XiaoYuanJingLi" ELSE "Campus Experience"]

\* url.replace('https://', ''): the first occurrence is dropped.
StripHttps(url) ==
    IF \E i \in 1..Len(url) : url[i] = "https://"
    THEN LET i == CHOOSE j \in 1..Len(url) :
                      url[j] = "https://" /\ \A h \in 1..(j - 1) : url[h] # "https://"
         IN  SubSeq(url, 1, i - 1) \o SubSeq(url, i + 1, Len(url))
    ELSE url

OtherItem(pair) == <<"<div class=other-item>", "<strong>", pair[1], "</strong>",
                     "<p>", pair[2], "</p>", "</div>">>

RenderContact(d, data, lang) ==
    LET other == data.profile.other
        otherLabels == IF lang = "cn"
                       THEN <<"ZhengZhiShenFen", "GeRenYouShi", "JiangXiangRongYu", "YuYanNengLi">>
                       ELSE <<"Political Status", "Strengths", "Awards", "Language">>
        otherValues == <<other.political, other.advantages, other.awards, other.language>>
    IN  [d EXCEPT !.contactEmail = data.profile.contact.email,
                  !.contactPhone = data.profile.contact.phone,
                  !.githubHref = data.profile.contact.github,
                  !.githubText = "GGyongfeng",
                  !.websiteHref = data.profile.contact.website,
                  !.websiteText = StripHttps(data.profile.contact.website),
                  !.contactTitles = IF lang = "cn"
                                    THEN <<"YouXiang", "DianHua", "GitHub", "WangZhan">>
                                    ELSE <<"Email", "Phone", "GitHub", "Website">>,
                  !.otherInfo = JoinMap(OtherItem,
                                  [i \in 1..4 |-> <<otherLabels[i], otherValues[i]>>])]

RenderFooter(d, data) ==
    [d EXCEPT !.footerGithub = data.profile.contact.github,
              !.footerWebsite = data.profile.contact.website]

\* renderAll: the eight renderers in order.  A data set without profile makes
\* renderHero throw (profile.avatar of undefined) after renderNav has written;
\* threw says so, and timer says whether renderSkills set its 100 ms timer.
RenderAll(d, data, lang) ==
    IF ~data.hasProfile
    THEN [dom |-> RenderNav(d, data), threw |-> TRUE, timer |-> FALSE]
    ELSE [dom |-> RenderFooter(
                    RenderContact(
                      RenderEducation(
                        RenderProjects(
                          RenderSkills(
                            RenderAbout(
                              RenderHero(
                                RenderNav(d, data), data, lang), data), data),
                          data, lang), data, lang), data, lang), data),
          threw |-> FALSE, timer |-> TRUE]

\* document.documentElement.lang for a locale code (app.js:42)
LangTag(lang) == IF lang = "cn" THEN "zh-CN" ELSE "en"

\* The toggle's label after a switch to newLang (app.js:144)
ToggleLabel(newLang) == IF newLang = "cn" THEN "EN" ELSE "ZhongWen"

(***************************************************************************)
(* Scroll-driven nav highlighting.                                         *)
(***************************************************************************)
\* The page of the spec's boundary example: section tops 0, 500, 1200.
ExampleLayout ==
    << [id |-> "hero", top |-> 0], [id |-> "about", top |-> 500],
       [id |-> "projects", top |-> 1200] >>

RECURSIVE CurrentSection(_, _, _)
\* sections.forEach: every section with scrollY >= top - 100 overwrites current.
CurrentSection(sections, y, current) ==
    IF sections = <<>> THEN current
    ELSE CurrentSection(Tail(sections), y,
                        IF y >= Head(sections).top - Lookahead
                        THEN Head(sections).id ELSE current)

\* A comparison that excludes the boundary.
ActiveNavLinksStrict(sections, y) ==
    LET Shifted == [i \in 1..Len(sections) |-> [id |-> sections[i].id, top |-> sections[i].top + 1]]
    IN  {k \in NavKeys : NavHref(k) = "#" \o CurrentSection(Shifted, y, "")}
\* updateActiveNavLink: the links left with class "active".
ActiveNavLinks(sections, y) ==
    {k \in NavKeys : NavHref(k) = "#" \o CurrentSection(sections, y, "")}

(***************************************************************************)
(* History kept for the properties.                                        *)
(***************************************************************************)
NoSnap == [lang |-> "none", data |-> Null, docLang |-> "none", dom |-> InitialDom,
           label |-> "none", timers |-> 0]
TakeSnap == [lang |-> currentLang, data |-> appData, docLang |-> docLang, dom |-> dom,
             label |-> langText, timers |-> barTimers]
NoRender == [count |-> 0, threw |-> FALSE, before |-> InitialDom, after |-> InitialDom,
             prev |-> InitialDom]

Other(lang) == IF lang = "cn" THEN "en" ELSE "cn"

Remove(seq, i) == SubSeq(seq, 1, i - 1) \o SubSeq(seq, i + 1, Len(seq))

TogglesPending == {i \in DOMAIN pending : pending[i].who = "toggle"}

(***************************************************************************)
(* The state after the script has been evaluated, before DOMContentLoaded. *)
(***************************************************************************)
Init ==
    /\ appData = Null
    /\ currentLang = "cn"
    /\ docLang = "markup"
    /\ dom = InitialDom
    /\ barTimers = 0
    /\ loadingHidden = FALSE
    /\ hideTimers = 0
    /\ initState = "start"
    /\ pending = <<>>
    /\ listenersAttached = FALSE
    /\ observing = FALSE
    /\ toggleDisabled = FALSE
    /\ toggleOpacity = "markup"
    /\ langText = "markup-lang-text"
    /\ navActive = <<FALSE, FALSE>>
    /\ navScrolled = FALSE
    /\ scrollY = 0
    /\ activeLinks = {}
    /\ layout = ExampleLayout
    /\ hasObserver \in BOOLEAN
    /\ notices = 0
    /\ renderCalls = 0
    /\ toggleOutcome = "none"
    /\ clickSnap = NoSnap
    /\ prevSnap = NoSnap
    /\ prevOutcome = "none"
    /\ lastRender = NoRender

loaderVars == <<appData, currentLang, docLang>>
toggleVars == <<toggleDisabled, toggleOpacity, langText>>
uiVars == <<navActive, navScrolled, scrollY, activeLinks>>
envVars == <<layout, hasObserver>>
histVars == <<toggleOutcome, clickSnap, prevSnap, prevOutcome>>

(***************************************************************************)
(* Startup: the DOMContentLoaded handler runs to its first await.          *)
(***************************************************************************)
DOMContentLoaded ==
    /\ initState = "start"
    /\ initState' = "loading"
    /\ pending' = Append(pending, [who |-> "init", lang |-> currentLang, stage |-> "fetch"])
    /\ UNCHANGED <<loaderVars, dom, barTimers, loadingHidden, hideTimers, listenersAttached,
                   observing, toggleVars, uiVars, envVars, notices, renderCalls, histVars,
                   lastRender>>

\* hideLoading(): one more 300 ms timer.
HideLoading == hideTimers' = hideTimers + 1

(***************************************************************************)
(* loadLanguage: await fetch, the ok test, await response.json(), and the  *)
(* three assignments.                                                      *)
(***************************************************************************)
\* The response arrived with ok set: loadLanguage goes on to await response.json().
FetchOk(i) ==
    /\ i \in DOMAIN pending
    /\ pending[i].stage = "fetch"
    /\ pending' = [pending EXCEPT ![i].stage = "json"]
    /\ UNCHANGED <<loaderVars, dom, barTimers, loadingHidden, hideTimers, initState,
                   listenersAttached, observing, toggleVars, uiVars, envVars, notices,
                   renderCalls, histVars, lastRender>>

\* A toggle catch that stays silent.
ToggleCatchSilent ==
    /\ notices' = notices
    /\ toggleOutcome' = "loadfail"
\* toggleLanguage's catch for a failed load: console.error and alert.
ToggleCatch ==
    /\ notices' = notices + 1
    /\ toggleOutcome' = "loadfail"

\* A finally that restores the opacity only.
ToggleFinallyStaysDisabled ==
    /\ toggleDisabled' = toggleDisabled
    /\ toggleOpacity' = "1"
\* toggleLanguage's finally.
ToggleFinally ==
    /\ toggleDisabled' = FALSE
    /\ toggleOpacity' = "1"

\* An initial-load catch that forgets the overlay.
InitCatchKeepsOverlay ==
    /\ initState' = "loadfail"
    /\ hideTimers' = hideTimers
\* The DOMContentLoaded handler's catch for a failed load: console.error, hideLoading.
InitCatch ==
    /\ initState' = "loadfail"
    /\ HideLoading

\* loadLanguage threw (fetch rejected, response not ok, or json() rejected): the
\* caller's catch runs; nothing was assigned.
LoadFailed(i) ==
    /\ pending' = Remove(pending, i)
    /\ IF pending[i].who = "init"
       THEN /\ InitCatch
            /\ UNCHANGED <<toggleVars, notices, histVars>>
       ELSE /\ ToggleCatch
            /\ ToggleFinally
            /\ UNCHANGED <<initState, hideTimers, langText, clickSnap, prevSnap, prevOutcome>>
    /\ UNCHANGED <<loaderVars, dom, barTimers, loadingHidden, listenersAttached, observing,
                   uiVars, envVars, renderCalls, lastRender>>

\* fetch rejected, or the response came without ok (app.js:34).
FetchNotOk(i) ==
    /\ i \in DOMAIN pending
    /\ pending[i].stage = "fetch"
    /\ LoadFailed(i)

\* The body did not parse: response.json() rejected (app.js:38).
JsonRejected(i) ==
    /\ i \in DOMAIN pending
    /\ pending[i].stage = "json"
    /\ LoadFailed(i)

\* A success path that merges the new document's nav into the old data set.
LoadLanguageSuccessMerge(doc, lang) ==
    /\ appData' = IF appData = Null THEN doc ELSE [appData EXCEPT !.nav = doc.nav]
    /\ currentLang' = lang
    /\ docLang' = LangTag(lang)
\* app.js:38-42, run without interruption once json() has resolved.
LoadLanguageSuccess(doc, lang) ==
    /\ appData' = doc
    /\ currentLang' = lang
    /\ docLang' = LangTag(lang)

\* The DOMContentLoaded handler after loadLanguage returned: renderAll, hideLoading,
\* initializeEventListeners, addScrollAnimations; the catch calls hideLoading.
InitContinue(r) ==
    /\ IF r.threw
       THEN /\ initState' = "renderfail"
            /\ HideLoading
            /\ UNCHANGED <<listenersAttached, observing>>
       ELSE /\ listenersAttached' = TRUE
            /\ IF hasObserver
               THEN /\ initState' = "done"
                    /\ observing' = TRUE
                    /\ HideLoading
               ELSE /\ initState' = "animfail"
                    /\ observing' = FALSE
                    /\ hideTimers' = hideTimers + 2
    /\ UNCHANGED <<toggleVars, notices, histVars>>

\* app.js:144
UpdateLabel(newLang) == langText' = ToggleLabel(newLang)

\* toggleLanguage after loadLanguage returned: renderAll, the label; a throw of
\* renderAll goes to the catch (alert); finally re-enables.
ToggleContinue(r, newLang) ==
    /\ IF r.threw
       THEN /\ notices' = notices + 1
            /\ toggleOutcome' = "renderfail"
            /\ langText' = langText
       ELSE /\ notices' = notices
            /\ toggleOutcome' = "ok"
            /\ UpdateLabel(newLang)
    /\ ToggleFinally
    /\ UNCHANGED <<initState, hideTimers, listenersAttached, observing, clickSnap, prevSnap,
                   prevOutcome>>

\* response.json() resolved with version ver of the file: loadLanguage ends and
\* its caller continues to the end of the handler, all in one run of the event loop.
JsonResolved(i, ver) ==
    /\ i \in DOMAIN pending
    /\ pending[i].stage = "json"
    /\ LET lang == pending[i].lang
           doc == Doc(lang, ver)
           r == RenderAll(dom, doc, lang)
       IN  /\ LoadLanguageSuccess(doc, lang)
           /\ dom' = r.dom
           /\ barTimers' = barTimers + (IF r.timer THEN 1 ELSE 0)
           /\ renderCalls' = renderCalls + 1
           /\ pending' = Remove(pending, i)
           /\ IF pending[i].who = "init"
              THEN InitContinue(r)
              ELSE ToggleContinue(r, lang)
    /\ UNCHANGED <<loadingHidden, uiVars, envVars, lastRender>>

(***************************************************************************)
(* The locale toggle.                                                      *)
(***************************************************************************)
\* A control whose disabled state does not stop clicks.
ClickDeliverableAlways == listenersAttached
\* A click reaches toggleLanguage only once the listener is attached (app.js:59),
\* and a disabled button dispatches no click event.
ClickDeliverable == listenersAttached /\ ~toggleDisabled

\* toggleLanguage up to its await (app.js:132-140).
ToggleClickBody ==
    /\ ClickDeliverable
    /\ Len(pending) < MaxPending
    /\ barTimers < MaxBarTimers
    /\ toggleDisabled' = TRUE
    /\ toggleOpacity' = "0.5"
    /\ pending' = Append(pending, [who |-> "toggle", lang |-> Other(currentLang),
                                   stage |-> "fetch"])
    /\ clickSnap' = TakeSnap
    /\ toggleOutcome' = "pending"
    /\ notices' = 0
    /\ renderCalls' = 0
    /\ UNCHANGED <<loaderVars, dom, barTimers, loadingHidden, hideTimers, initState,
                   listenersAttached, observing, langText, uiVars, envVars, lastRender>>

\* A click on the toggle.
ToggleClick ==
    /\ ToggleClickBody
    /\ UNCHANGED <<prevSnap, prevOutcome>>

\* A click on the toggle, remembering the click before it as well.
ToggleClickTracked ==
    /\ ToggleClickBody
    /\ prevSnap' = clickSnap
    /\ prevOutcome' = toggleOutcome

(***************************************************************************)
(* Timers.                                                                 *)
(***************************************************************************)
\* app.js:47-49
HideTimerFire ==
    /\ hideTimers > 0
    /\ hideTimers' = hideTimers - 1
    /\ loadingHidden' = TRUE
    /\ UNCHANGED <<loaderVars, dom, barTimers, initState, pending, listenersAttached,
                   observing, toggleVars, uiVars, envVars, notices, renderCalls, histVars,
                   lastRender>>

\* app.js:243-248
BarTimerFire ==
    /\ barTimers > 0
    /\ barTimers' = barTimers - 1
    /\ dom' = AnimateBars(dom)
    /\ UNCHANGED <<loaderVars, loadingHidden, hideTimers, initState, pending,
                   listenersAttached, observing, toggleVars, uiVars, envVars, notices,
                   renderCalls, histVars, lastRender>>

(***************************************************************************)
(* Nav, scroll and anchor handlers (initializeEventListeners).              *)
(***************************************************************************)
\* app.js:65-68
NavToggleClick ==
    /\ listenersAttached
    /\ navActive' = <<~navActive[1], ~navActive[2]>>
    /\ UNCHANGED <<loaderVars, dom, barTimers, loadingHidden, hideTimers, initState, pending,
                   listenersAttached, observing, toggleVars, navScrolled, scrollY,
                   activeLinks, envVars, notices, renderCalls, histVars, lastRender>>

\* The scroll listener (app.js:79-89) at scroll position y.
ScrollHandler(y) ==
    /\ navScrolled' = (y > ScrolledOffset)
    /\ activeLinks' = ActiveNavLinks(layout, y)

\* The window scrolls to y; the listener runs if it is attached.
Scroll(y) ==
    /\ scrollY' = y
    /\ IF listenersAttached THEN ScrollHandler(y) ELSE UNCHANGED <<navScrolled, activeLinks>>
    /\ UNCHANGED <<loaderVars, dom, barTimers, loadingHidden, hideTimers, initState, pending,
                   listenersAttached, observing, toggleVars, navActive, envVars, notices,
                   renderCalls, histVars, lastRender>>

\* The anchor listener (app.js:93-102): preventDefault, and scrollIntoView of the
\* first element the href selects, if any; the scroll it causes runs the scroll
\* listener.  Nothing scrolls when the target is already at the top.
SmoothScroll(href) ==
    LET hits == {i \in DOMAIN layout : "#" \o layout[i].id = href}
    IN  IF hits = {}
        THEN UNCHANGED <<scrollY, navScrolled, activeLinks>>
        ELSE LET target == layout[CHOOSE i \in hits : \A j \in hits : i <= j]
             IN  IF target.top = scrollY
                 THEN UNCHANGED <<scrollY, navScrolled, activeLinks>>
                 ELSE scrollY' = target.top /\ ScrollHandler(target.top)

\* A nav link is clicked: its own listener closes the menu (app.js:72-75), and, the
\* link being an in-page anchor, the anchor listener scrolls.
NavLinkClick(key) ==
    /\ listenersAttached
    /\ navActive' = <<FALSE, FALSE>>
    /\ SmoothScroll(NavHref(key))
    /\ UNCHANGED <<loaderVars, dom, barTimers, loadingHidden, hideTimers, initState, pending,
                   listenersAttached, observing, toggleVars, envVars, notices, renderCalls,
                   histVars, lastRender>>

\* The in-page anchors that are not nav links (the hero's two buttons).
OtherAnchors == {"#projects", "#contact"}

AnchorClick(href) ==
    /\ listenersAttached
    /\ SmoothScroll(href)
    /\ UNCHANGED <<loaderVars, dom, barTimers, loadingHidden, hideTimers, initState, pending,
                   listenersAttached, observing, toggleVars, navActive, envVars, notices,
                   renderCalls, histVars, lastRender>>

\* The scroll positions the model lets the window take.
ScrollPositions == {0, 590}

(***************************************************************************)
(* The page from script evaluation on.                                     *)
(***************************************************************************)
Next ==
    \/ DOMContentLoaded
    \/ \E i \in 1..MaxPending : FetchOk(i)
    \/ \E i \in 1..MaxPending : FetchNotOk(i)
    \/ \E i \in 1..MaxPending : JsonRejected(i)
    \/ \E i \in 1..MaxPending : \E ver \in Versions : JsonResolved(i, ver)
    \/ ToggleClick
    \/ HideTimerFire
    \/ BarTimerFire
    \/ NavToggleClick
    \/ \E y \in ScrollPositions : Scroll(y)
    \/ \E key \in NavKeys : NavLinkClick(key)
    \/ \E href \in OtherAnchors : AnchorClick(href)

Spec == Init /\ [][Next]_vars

(***************************************************************************)
(* The loader, the toggle and the timers alone, under the event loop's     *)
(* guarantee that a timer that is due runs.                                *)
(***************************************************************************)
NextLoader ==
    \/ DOMContentLoaded
    \/ \E i \in 1..MaxPending : FetchOk(i)
    \/ \E i \in 1..MaxPending : FetchNotOk(i)
    \/ \E i \in 1..MaxPending : JsonRejected(i)
    \/ \E i \in 1..MaxPending : \E ver \in Versions : JsonResolved(i, ver)
    \/ ToggleClick
    \/ HideTimerFire
    \/ BarTimerFire

FairSpec == Init /\ [][NextLoader]_vars /\ WF_vars(HideTimerFire) /\ WF_vars(BarTimerFire)

(***************************************************************************)
(* The loader, the toggle and the timers alone, with the history of two    *)
(* toggles: for properties that relate a toggle to the one before it.      *)
(***************************************************************************)
NextRoundTrip ==
    \/ DOMContentLoaded
    \/ \E i \in 1..MaxPending : FetchOk(i)
    \/ \E i \in 1..MaxPending : FetchNotOk(i)
    \/ \E i \in 1..MaxPending : JsonRejected(i)
    \/ \E i \in 1..MaxPending : \E ver \in Versions : JsonResolved(i, ver)
    \/ ToggleClickTracked
    \/ HideTimerFire
    \/ BarTimerFire

SpecRoundTrip == Init /\ [][NextRoundTrip]_vars

(***************************************************************************)
(* The nav, scroll and anchor handlers on several pages, from the state a  *)
(* successful startup leaves.                                              *)
(***************************************************************************)
Layouts ==
    { ExampleLayout,
      \* tops not in document order
      << [id |-> "hero", top |-> 0], [id |-> "about", top |-> 900],
         [id |-> "projects", top |-> 600] >>,
      \* nothing qualifies near the top of the page
      << [id |-> "hero", top |-> 300], [id |-> "about", top |-> 500],
         [id |-> "projects", top |-> 1200] >>,
      \* a section no nav link targets
      << [id |-> "hero", top |-> 0], [id |-> "skills", top |-> 500],
         [id |-> "projects", top |-> 1200] >> }

WideScrollPositions == {0, 50, 51, 199, 200, 399, 400, 499, 500, 590, 800, 1090, 1099, 1100, 1300}

StartedDom == AnimateBars(RenderAll(InitialDom, Doc("cn", "full"), "cn").dom)

InitScroll ==
    /\ appData = Doc("cn", "full")
    /\ currentLang = "cn"
    /\ docLang = LangTag("cn")
    /\ dom = StartedDom
    /\ barTimers = 0
    /\ loadingHidden = TRUE
    /\ hideTimers = 0
    /\ initState = "done"
    /\ pending = <<>>
    /\ listenersAttached = TRUE
    /\ observing = TRUE
    /\ toggleDisabled = FALSE
    /\ toggleOpacity = "markup"
    /\ langText = "markup-lang-text"
    /\ navActive = <<FALSE, FALSE>>
    /\ navScrolled = FALSE
    /\ scrollY = 0
    /\ activeLinks = {}
    /\ layout \in Layouts
    /\ hasObserver = TRUE
    /\ notices = 0
    /\ renderCalls = 1
    /\ toggleOutcome = "none"
    /\ clickSnap = NoSnap
    /\ prevSnap = NoSnap
    /\ prevOutcome = "none"
    /\ lastRender = NoRender

NextScroll ==
    \/ NavToggleClick
    \/ \E y \in WideScrollPositions : Scroll(y)
    \/ \E key \in NavKeys : NavLinkClick(key)
    \/ \E href \in OtherAnchors : AnchorClick(href)

SpecScroll == InitScroll /\ [][NextScroll]_vars

(***************************************************************************)
(* renderAll called directly, any number of times, on a loaded data set.   *)
(***************************************************************************)
\* Longest projects list of the rendered data sets.
MaxProjects == 2
\* Most direct renderAll calls.
MaxRenders == 3

RespValues == {Undef, List(<<>>), List(<<"r1", "r2">>)}
AchValues == {Undef, Str(""), Str("ach")}

ProjectVariants(lang) ==
    {Project(lang, "v", resp, ach) : resp \in RespValues, ach \in AchValues}

ProjectLists(lang) ==
    UNION {[1..n -> ProjectVariants(lang)] : n \in 1..MaxProjects}

\* The data sets renderAll is called on: the data files, and the full file with
\* every projects list.
RenderDocs(lang) ==
    Docs(lang)
    \cup {[Doc(lang, "full") EXCEPT !.ver = "custom", !.projects = ps] : ps \in ProjectLists(lang)}

\* What the page may hold when renderAll is called: the markup, or an earlier
\* render of a locale, with its bars animated.
PriorDoms ==
    {InitialDom} \cup {AnimateBars(RenderAll(InitialDom, Doc(l, "full"), l).dom) : l \in Langs}

InitRender ==
    /\ currentLang \in Langs
    /\ appData \in RenderDocs(currentLang)
    /\ docLang = LangTag(currentLang)
    /\ dom \in PriorDoms
    /\ barTimers = 0
    /\ loadingHidden = FALSE
    /\ hideTimers = 0
    /\ initState = "loading"
    /\ pending = <<>>
    /\ listenersAttached = FALSE
    /\ observing = FALSE
    /\ toggleDisabled = FALSE
    /\ toggleOpacity = "markup"
    /\ langText = "markup-lang-text"
    /\ navActive = <<FALSE, FALSE>>
    /\ navScrolled = FALSE
    /\ scrollY = 0
    /\ activeLinks = {}
    /\ layout = ExampleLayout
    /\ hasObserver = TRUE
    /\ notices = 0
    /\ renderCalls = 0
    /\ toggleOutcome = "none"
    /\ clickSnap = NoSnap
    /\ prevSnap = NoSnap
    /\ prevOutcome = "none"
    /\ lastRender = NoRender

\* renderAll(), with what it found and what it left.
RenderAllCall ==
    /\ lastRender.count < MaxRenders
    /\ barTimers < MaxBarTimers
    /\ LET r == RenderAll(dom, appData, currentLang)
       IN  /\ dom' = r.dom
           /\ barTimers' = barTimers + (IF r.timer THEN 1 ELSE 0)
           /\ lastRender' = [count |-> lastRender.count + 1, threw |-> r.threw,
                             before |-> dom, after |-> r.dom, prev |-> lastRender.after]
    /\ UNCHANGED <<loaderVars, loadingHidden, hideTimers, initState, pending,
                   listenersAttached, observing, toggleVars, uiVars, envVars, notices,
                   renderCalls, histVars>>

NextRender ==
    \/ RenderAllCall
    \/ BarTimerFire

SpecRender == InitRender /\ [][NextRender]_vars

(***************************************************************************)
(* Properties.                                                             *)
(***************************************************************************)
\* The targets with every bar's width put back to 0%: all that the renderers wrote.
WrittenContent(d) == [d EXCEPT !.barWidth = [i \in DOMAIN d.barWidth |-> "0"]]

LabelsOf(lang) ==
    {d.nav[k].s : d \in Docs(lang), k \in NavKeys} \ {""}

\* C2: whenever the active data set was loaded and rendered without a throw, the
\* language attribute is the locale's tag, every nav link holds its label from
\* the data set and none holds a label of the other locale, and every other
\* target holds what the renderers make of the data set alone.
C2_RenderShowsOnlyActiveLocale ==
    (appData # Null /\ appData.hasProfile) =>
        /\ docLang = (IF currentLang = "cn" THEN "zh-CN" ELSE "en")
        /\ \A k \in NavKeys :
              /\ Truthy(appData.nav[k]) => dom.navLabels[k] = appData.nav[k].s
              /\ dom.navLabels[k] \notin LabelsOf(Other(currentLang))
        /\ dom.name = appData.profile.name
        /\ dom.title = appData.profile.title
        /\ dom.intro = appData.profile.intro
        /\ dom.bio = appData.profile.bio
        /\ dom.contactEmail = appData.profile.contact.email
        /\ dom.footerGithub = appData.profile.contact.github
        /\ [WrittenContent(dom) EXCEPT !.navLabels = InitialDom.navLabels]
             = [WrittenContent(RenderAll(InitialDom, appData, currentLang).dom)
                  EXCEPT !.navLabels = InitialDom.navLabels]

\* C2 for every target but the nav links.
C2_AllButNav ==
    (appData # Null /\ appData.hasProfile) =>
        /\ docLang = (IF currentLang = "cn" THEN "zh-CN" ELSE "en")
        /\ \A k \in NavKeys :
              Truthy(appData.nav[k]) => dom.navLabels[k] = appData.nav[k].s
        /\ dom.name = appData.profile.name
        /\ [WrittenContent(dom) EXCEPT !.navLabels = InitialDom.navLabels]
             = [WrittenContent(RenderAll(InitialDom, appData, currentLang).dom)
                  EXCEPT !.navLabels = InitialDom.navLabels]

\* C3: once a load has succeeded, the active data set is one whole document of
\* the active locale code's file and the language attribute is that code's tag,
\* in every state; and the three change only together, in the one step that ends
\* a loadLanguage call whose json() resolved.
C3_OneDataSetOfActiveLocale ==
    /\ [](appData # Null =>
            /\ appData \in Docs(currentLang)
            /\ appData.file = currentLang
            /\ docLang = (IF currentLang = "cn" THEN "zh-CN" ELSE "en"))
    /\ [][(appData' # appData \/ currentLang' # currentLang \/ docLang' # docLang) =>
            \E i \in DOMAIN pending :
                /\ pending[i].stage = "json"
                /\ pending' = Remove(pending, i)
                /\ currentLang' = pending[i].lang
                /\ appData' \in Docs(currentLang')
                /\ docLang' = (IF currentLang' = "cn" THEN "zh-CN" ELSE "en")]_vars

\* A switch is waiting for its body after an earlier switch failed.
C3_Witness ==
    /\ appData # Null
    /\ pending # <<>>
    /\ pending[1].stage = "json"
    /\ clickSnap.label = "ZhongWen"
    /\ currentLang = "en"

\* C4 as stated: while a switch is pending, a further click on the toggle is
\* delivered and starts another fetch.
C4_ClicksOverlap ==
    TogglesPending # {} => ClickDeliverable

\* C4 amended: no click is delivered while a switch is pending, so at most one
\* loadLanguage call is ever suspended; after a successful switch the label is
\* the one for the active locale, and the label disagrees with the active locale
\* only before the first successful switch or while the active data set is one
\* whose render threw.
C4_NoOverlapLabelInSync ==
    /\ TogglesPending # {} => ~ClickDeliverable
    /\ Cardinality(TogglesPending) <= 1
    /\ Len(pending) <= 1
    /\ toggleOutcome = "ok" => langText = ToggleLabel(currentLang)
    /\ appData # Null =>
          \/ langText = ToggleLabel(currentLang)
          \/ langText = "markup-lang-text"
          \/ ~appData.hasProfile

\* A second switch is pending after a first one succeeded.
C4_Witness ==
    /\ TogglesPending # {}
    /\ toggleDisabled
    /\ clickSnap.label = "ZhongWen"
    /\ clickSnap.lang = "en"

\* The bars at the widths their timers leave them.
Settled(d) == AnimateBars(d)

\* C5: after two consecutive successful toggles, L to L' and back, with the file
\* of L served as before, every target (bars settled), the locale code and the
\* language attribute are what they were before the first of the two.
C5_RoundTrip ==
    (/\ toggleOutcome = "ok"
     /\ prevOutcome = "ok"
     /\ appData = prevSnap.data
     /\ prevSnap.data.hasProfile) =>
        /\ Settled(dom) = Settled(prevSnap.dom)
        /\ currentLang = prevSnap.lang
        /\ docLang = prevSnap.docLang

\* C5 for everything but the nav labels.
C5_RoundTripButNav ==
    (/\ toggleOutcome = "ok"
     /\ prevOutcome = "ok"
     /\ appData = prevSnap.data
     /\ prevSnap.data.hasProfile) =>
        /\ [Settled(dom) EXCEPT !.navLabels = InitialDom.navLabels]
             = [Settled(prevSnap.dom) EXCEPT !.navLabels = InitialDom.navLabels]
        /\ currentLang = prevSnap.lang
        /\ docLang = prevSnap.docLang
        /\ appData = prevSnap.data

\* Two consecutive toggles have succeeded and the first file is active again.
C5_Witness ==
    /\ toggleOutcome = "ok"
    /\ prevOutcome = "ok"
    /\ appData = prevSnap.data
    /\ prevSnap.data.hasProfile

\* C6 as stated, for a call made after the earlier call's timer fired: a further
\* renderAll() on unchanged data leaves every target as the call found it.
C6_SecondCallChangesNothing ==
    lastRender.count >= 2 => lastRender.after = lastRender.before

\* C6 amended: a further renderAll() on unchanged data leaves every target as
\* the earlier call left it on its return (bars at 0%), and changes nothing but
\* bar widths in what it found; once no bar timer is pending, every bar is at
\* its data-progress again.
C6_SecondCallAsFirst ==
    /\ lastRender.count >= 2 =>
          /\ lastRender.after = lastRender.prev
          /\ WrittenContent(lastRender.after) = WrittenContent(lastRender.before)
    /\ (lastRender.count >= 1 /\ barTimers = 0) => dom.barWidth = dom.barProgress
    /\ (lastRender.count >= 1 /\ dom.barWidth # dom.barProgress)
          => dom.barWidth = [i \in DOMAIN dom.barWidth |-> "0"]

\* A second call found the bars animated and reset them.
C6_Witness ==
    /\ lastRender.count >= 2
    /\ ~lastRender.threw
    /\ lastRender.before.barWidth = lastRender.before.barProgress
    /\ lastRender.after.barWidth # lastRender.before.barWidth
    /\ lastRender.after = lastRender.prev

\* The links whose href targets the last section, in document order, whose top
\* minus 100 is at most y.
ExpectedActive(sections, y) ==
    LET Q == {i \in DOMAIN sections : sections[i].top - 100 <= y}
    IN  IF Q = {} THEN {}
        ELSE LET last == CHOOSE i \in Q : \A j \in Q : j <= i
             IN  {k \in NavKeys : NavHref(k) = "#" \o sections[last].id}

\* C7: every scroll event leaves active exactly the links that target the last
\* section in document order whose top minus 100 is at most the scroll position;
\* with tops 0, 500, 1200 that is the second section at 590 and at 1090 and the
\* third at 1100.
C7_ScrollMarksLastQualifying ==
    [][(\E y \in WideScrollPositions : Scroll(y)) =>
          /\ activeLinks' = ExpectedActive(layout, scrollY')
          /\ (layout = ExampleLayout /\ scrollY' = 590) => activeLinks' = {"about"}
          /\ (layout = ExampleLayout /\ scrollY' = 1090) => activeLinks' = {"about"}
          /\ (layout = ExampleLayout /\ scrollY' = 1100) => activeLinks' = {"projects"}]_vars

\* The boundary: at 1100 the third section's link is the active one.
C7_Witness ==
    /\ layout = ExampleLayout
    /\ scrollY = 1100
    /\ activeLinks = {"projects"}

\* The cards of a projects fragment, one per opening project-card tag.
CardStarts(html) == {i \in 1..Len(html) : html[i] = "<div class=project-card>"}
CardAt(html, n) ==
    LET starts == CardStarts(html)
        from == CHOOSE i \in starts : Cardinality({j \in starts : j <= i}) = n
        later == {j \in starts : j > from}
        to == IF later = {} THEN Len(html)
              ELSE (CHOOSE j \in later : \A h \in later : j <= h) - 1
    IN  SubSeq(html, from, to)
HasResponsibilities(card) == Contains(card, "<div class=project-responsibilities>")
HasAchievements(card) == Contains(card, "<div class=project-achievements>")
ProjectsRendered == lastRender.count >= 1 /\ ~lastRender.threw

\* C8 as stated: each card has a responsibilities block exactly when its entry
\* has the field, and an achievements block exactly when its entry has that
\* field, an empty list or an empty string included.
C8_BlockIffFieldPresent ==
    ProjectsRendered =>
        /\ Cardinality(CardStarts(dom.projectsTimeline)) = Len(appData.projects)
        /\ \A n \in 1..Len(appData.projects) :
              LET card == CardAt(dom.projectsTimeline, n)
                  project == appData.projects[n]
              IN  /\ HasResponsibilities(card) <=> project.responsibilities.k # "undef"
                  /\ HasAchievements(card) <=> project.achievements.k # "undef"

\* C8 amended: each card has a responsibilities block exactly when its entry has
\* a responsibilities list, an empty one included, and an achievements block
\* exactly when its entry has a non-empty achievements string; the two are
\* decided independently.
C8_BlockIffFieldTruthy ==
    ProjectsRendered =>
        /\ Cardinality(CardStarts(dom.projectsTimeline)) = Len(appData.projects)
        /\ \A n \in 1..Len(appData.projects) :
              LET card == CardAt(dom.projectsTimeline, n)
                  project == appData.projects[n]
              IN  /\ HasResponsibilities(card) <=> project.responsibilities.k = "list"
                  /\ HasAchievements(card) <=>
                        (project.achievements.k = "str" /\ project.achievements.s # "")

\* A rendered card for an entry with an empty list and an empty string: it has
\* the responsibilities block and no achievements block.
C8_Witness ==
    /\ ProjectsRendered
    /\ \E n \in 1..Len(appData.projects) :
          /\ appData.projects[n].responsibilities = List(<<>>)
          /\ appData.projects[n].achievements = Str("")
          /\ HasResponsibilities(CardAt(dom.projectsTimeline, n))
          /\ ~HasAchievements(CardAt(dom.projectsTimeline, n))

\* C9: after a failed initial load nothing is rendered, the data set stays
\* empty, no loadLanguage call is or can be started, no notice is raised, and
\* the overlay becomes hidden; and whichever way startup ends, the overlay
\* becomes hidden and stays so.
C9_FailedStartupHidesOverlay ==
    /\ [](initState = "loadfail" =>
            /\ appData = Null
            /\ dom = InitialDom
            /\ renderCalls = 0
            /\ pending = <<>>
            /\ ~listenersAttached
            /\ ~ENABLED ToggleClick
            /\ notices = 0)
    /\ (initState = "loadfail") ~> loadingHidden
    /\ (initState \notin {"start", "loading"}) ~> loadingHidden
    /\ [][loadingHidden => loadingHidden']_vars

\* The initial load failed and the overlay is hidden.
C9_Witness ==
    /\ initState = "loadfail"
    /\ loadingHidden
    /\ hideTimers = 0

\* C10: the toggle is disabled exactly while a toggleLanguage call is suspended
\* in loadLanguage, and is enabled after every way the call ends; at most one
\* loadLanguage call is suspended at any time; and while the toggle is disabled
\* the nav-toggle, nav-link, scroll and anchor handlers still run.
C10_DisabledWhileSwitching ==
    /\ toggleDisabled <=> TogglesPending # {}
    /\ toggleDisabled <=> toggleOutcome = "pending"
    /\ toggleDisabled <=> toggleOpacity = "0.5"
    /\ Len(pending) <= 1
    /\ toggleDisabled =>
          /\ ENABLED NavToggleClick
          /\ \A key \in NavKeys : ENABLED NavLinkClick(key)
          /\ \A y \in ScrollPositions : ENABLED Scroll(y)
          /\ \A href \in OtherAnchors : ENABLED AnchorClick(href)

\* The toggle is disabled with its switch waiting for the body, the menu open
\* and the page scrolled.
C10_Witness ==
    /\ toggleDisabled
    /\ pending # <<>>
    /\ pending[1].who = "toggle"
    /\ pending[1].stage = "json"
    /\ navActive = <<TRUE, TRUE>>
    /\ scrollY = 590

====
